---- MODULE Spec2Model ----
(***************************************************************************)
(* State-machine model of the PDF question-answering programs:             *)
(*   ingest_all.py  (ingest_multiple_pdfs, ingest_pdf, load_vector_store   *)
(*                   and the script's __main__ block)                      *)
(*   chat.py        (DocumentChatBot.__init__, search_and_respond,         *)
(*                   run_chat, main)                                       *)
(* Text is a sequence of one-character strings, a path is the sequence of  *)
(* its components, a file name is a record [stem, ext].  The libraries     *)
(* (PDF loader, text splitter, embedding model, vector store, chat model)  *)
(* are the environment: their outcomes are drawn with \E.                  *)
(***************************************************************************)
EXTENDS Integers, Sequences, FiniteSets, TLC

\* ------------------------------------------------------------- bounds
MaxFiles == 2      \* entries of the data folder
MaxPages == 2      \* pages of one PDF file
MaxTurns == 3      \* iterations of the chat loop that are explored

\* ------------------------------------------------- program constants
\* chat.py:20  search_kwargs={"k": 10}
K == 10

\* ingest_all.py:186  DATA_FOLDER = "data"
DATA_FOLDER == "data"

\* ingest_all.py:187  SINGLE_PDF_FILE = "data/4408_LOGS.pdf"
SINGLE_PDF_FILE == <<"data", [stem |-> "4408_LOGS", ext |-> "pdf"]>>

\* ------------------------------------------------------------- text
Min(a, b) == IF a <= b THEN a ELSE b

UpperCase == <<"A","B","C","D","E","F","G","H","I","J","K","L","M",
               "N","O","P","Q","R","S","T","U","V","W","X","Y","Z">>
LowerCase == <<"a","b","c","d","e","f","g","h","i","j","k","l","m",
               "n","o","p","q","r","s","t","u","v","w","x","y","z">>

\* The characters str.strip() removes: the 29 characters c with c.isspace().
\* A character that has no escape in a TLA+ string is named by its code point.
Whitespace ==
    { "\t", "\n", "U+000B", "\f", "\r", "U+001C", "U+001D", "U+001E", "U+001F",
      " ", "U+0085", "U+00A0", "U+1680",
      "U+2000", "U+2001", "U+2002", "U+2003", "U+2004", "U+2005", "U+2006",
      "U+2007", "U+2008", "U+2009", "U+200A",
      "U+2028", "U+2029", "U+202F", "U+205F", "U+3000" }

\* str.lower() on one character (the letters of the inputs are ASCII)
LowerChar(c) ==
    IF \E n \in 1..Len(UpperCase) : UpperCase[n] = c
    THEN LowerCase[CHOOSE n \in 1..Len(UpperCase) : UpperCase[n] = c]
    ELSE c

\* str.lower()
Lower(s) == [n \in 1..Len(s) |-> LowerChar(s[n])]

RECURSIVE LStrip(_)
LStrip(s) == IF s # <<>> /\ Head(s) \in Whitespace THEN LStrip(Tail(s)) ELSE s

RECURSIVE RStrip(_)
RStrip(s) ==
    IF s # <<>> /\ s[Len(s)] \in Whitespace
    THEN RStrip(SubSeq(s, 1, Len(s) - 1))
    ELSE s

\* str.strip()
Strip(s) == RStrip(LStrip(s))

\* the lines a user types at the chat prompt
ChatLines ==
    { <<>>, <<" ", "\t">>,
      <<"q","u","i","t">>, <<"Q","U","I","T">>, <<" ","E","x","i","t"," ">>,
      <<"b","y","e","\t">>, <<"h","e","l","p">>, <<" ","H","e","L","P">>,
      <<"h","i">>, <<"q","u","i","t","s">>, <<"h","e","l","p"," ","m","e">>,
      <<"b","y"," ","e">>,
      <<"q","u","i","t","\r">>, <<"\f">>, <<"\r","h","i">>,
      <<"U+00A0","h","e","l","p","U+2028">> }

\* the answers a user types at the overwrite prompt
OverwriteAnswers ==
    { <<"y">>, <<"Y">>, <<"n">>, <<>>, <<" ","y">>, <<"y","\r">>, <<"y","e","s">> }

\* the lines a user types at the mode prompt
ChoiceLines ==
    { <<"1">>, <<"2">>, <<" ","2","\t">>, <<"1","\r">>, <<"3">>, <<>>, <<"1","2">> }

\* ------------------------------------------------------------- paths
\* os.path.join(folder, name)
PathJoin(folder, name) == <<folder, name>>

\* os.path.basename(path)
Basename(path) == path[Len(path)]

\* ------------------------------------------------- the file system
\* the names a data-folder entry can have
FileNames ==
    { [stem |-> "4408_LOGS", ext |-> "pdf"],
      [stem |-> "B",         ext |-> "pdf"],
      [stem |-> "notes",     ext |-> "txt"] }

\* The text of one page, by what the splitter makes of it:
\* a blank page yields no chunk, a long page yields two.
PageTexts == {"blank", "long"}

RECURSIVE SeqsUpTo(_, _)
SeqsUpTo(S, n) ==
    IF n = 0 THEN { <<>> }
    ELSE LET shorter == SeqsUpTo(S, n - 1)
         IN  shorter \cup { Append(q, x) : q \in shorter, x \in S }

\* What a file holds: whether PDFPlumberLoader can read it, and its pages.
Unreadable == [loads |-> FALSE, pages |-> <<>>]
FileContents ==
    { Unreadable } \cup { [loads |-> TRUE, pages |-> ps] : ps \in SeqsUpTo(PageTexts, MaxPages) }

ContentsOf(name) == IF name.ext = "pdf" THEN FileContents ELSE { Unreadable }

\* the data folder: its entries in directory order, names distinct
FolderEntries == { [name |-> nm, content |-> c] : nm \in FileNames, c \in FileContents }
Folders ==
    { f \in SeqsUpTo(FolderEntries, MaxFiles) :
        /\ \A a, b \in 1..Len(f) : a # b => f[a].name # f[b].name
        /\ \A a \in 1..Len(f) : f[a].content \in ContentsOf(f[a].name) }

\* ---------------------------------------------- documents and chunks
\* PDFPlumberLoader(path).load() on a readable file: one Document per page
LoadedDocs(path, content) ==
    [p \in 1..Len(content.pages) |->
        [page_content |-> content.pages[p],
         metadata     |-> [source |-> path, page |-> p - 1]]]

\* doc.metadata["source_file"] = filename
WithSourceFile(doc, filename) ==
    [doc EXCEPT !.metadata = ("source_file" :> filename) @@ doc.metadata]

\* chunks the splitter makes of one page text
ChunkCount(text) == IF text = "blank" THEN 0 ELSE 2

\* RecursiveCharacterTextSplitter(add_start_index=True) on one Document:
\* every chunk inherits the page's metadata and records where it starts
\* (the offset is abstracted to the chunk's ordinal within the page)
SplitOne(doc) ==
    [j \in 1..ChunkCount(doc.page_content) |->
        [page_content |-> <<doc.page_content, j>>,
         metadata     |-> ("start_index" :> (j - 1)) @@ doc.metadata]]

\* text_splitter.split_documents(docs)
RECURSIVE SplitDocuments(_)
SplitDocuments(docs) ==
    IF docs = <<>> THEN <<>>
    ELSE SplitOne(Head(docs)) \o SplitDocuments(Tail(docs))

\* ------------------------------------------------ the persisted index
NoFile == [state |-> "absent", entries |-> <<>>]
Truncated == [state |-> "truncated", entries |-> <<>>]
Saved(entries) == [state |-> "saved", entries |-> entries]

\* an index an earlier directory ingestion of one one-page file left behind
EarlierName == [stem |-> "old", ext |-> "pdf"]
EarlierDocs ==
    <<WithSourceFile(
        [page_content |-> "long",
         metadata |-> [source |-> PathJoin(DATA_FOLDER, EarlierName), page |-> 0]],
        EarlierName)>>

\* the states the persisted index file can be in when a program starts
IndexFiles ==
    { NoFile, Truncated, Saved(<<>>), Saved(SplitDocuments(EarlierDocs)) }

\* the Python value None where a vector store is expected
None == [built |-> FALSE, entries |-> <<>>]
Store(entries) == [built |-> TRUE, entries |-> entries]

\* ------------------------------------------------------------ state
VARIABLES
    entry,            \* the program or function that was started
    pc,               \* where control is
    folderExists,     \* os.path.exists(DATA_FOLDER)
    folder,           \* the entries of the data folder
    indexDirExists,   \* the directory of VECTOR_STORE_PATH exists
    indexFile,        \* the persisted index file at VECTOR_STORE_PATH
    initialIndex,     \* that file as it was when the program started
    writes,           \* times the persisted index file was opened for writing
    response,         \* __main__: what input() gave at the overwrite prompt
    choice,           \* __main__: the ingestion mode chosen ("" before)
    pdf_files,        \* ingest_multiple_pdfs: glob result
    i,                \* ingest_multiple_pdfs: loop position
    all_documents,    \* ingest_multiple_pdfs: all_documents / ingest_pdf: docs
    processed_files,  \* ingest_multiple_pdfs: processed_files
    vector_store,     \* the in-memory vector store (None until built or loaded)
    ret,              \* how the started function ended
    exitStatus,       \* the process's exit status, once pc = "done"
    printed,          \* the messages printed so far
    turns,            \* run_chat: iterations of the loop so far
    last              \* run_chat: what the latest iteration read and did

vars == <<entry, pc, folderExists, folder, indexDirExists, indexFile, initialIndex, writes, response, choice,
          pdf_files, i, all_documents, processed_files, vector_store, ret,
          exitStatus, printed, turns, last>>

fsVars     == <<folderExists, folder, initialIndex, indexDirExists>>
ingestVars == <<choice, pdf_files, i, all_documents, processed_files>>
mainVars   == <<response>>
chatVars   == <<turns, last>>

Entries == {"ingest_main", "ingest_multiple_pdfs", "ingest_pdf",
            "load_vector_store", "chat_main"}

FirstPc(e) ==
    CASE e = "ingest_main"          -> "main_start"
      [] e = "ingest_multiple_pdfs" -> "im_start"
      [] e = "ingest_pdf"           -> "ip_start"
      [] e = "load_vector_store"    -> "lvs"
      [] e = "chat_main"            -> "chat_init"

Pending == [status |-> "pending", exc |-> "", value |-> None]
Returned(v) == [status |-> "returned", exc |-> "", value |-> v]
Raised(e) == [status |-> "raised", exc |-> e, value |-> None]

\* the overwrite prompt has not been shown
NotAsked == [kind |-> "none", text |-> <<>>]

\* no iteration of the chat loop yet
NoTurn ==
    [input |-> "none", line |-> <<>>, branch |-> "none", welcome |-> 0,
     search |-> 0, retrieve |-> 0, retrieval |-> "none", context |-> 0, llm |-> 0,
     response |-> "none", caught |-> "none", reported |-> FALSE]

Init ==
    /\ entry \in Entries
    /\ pc = FirstPc(entry)
    /\ folderExists \in BOOLEAN
    /\ folder \in Folders
    /\ ~folderExists => folder = <<>>
    /\ entry \in {"load_vector_store", "chat_main"} => folderExists /\ folder = <<>>
    /\ indexFile \in IndexFiles
    /\ indexDirExists \in BOOLEAN
    /\ indexFile # NoFile => indexDirExists
    /\ initialIndex = indexFile
    /\ writes = 0
    /\ response = NotAsked
    /\ choice = ""
    /\ pdf_files = <<>>
    /\ i = 0
    /\ all_documents = <<>>
    /\ processed_files = <<>>
    /\ vector_store = None
    /\ ret = Pending
    /\ exitStatus = 0
    /\ printed = {}
    /\ turns = 0
    /\ last = NoTurn

\* ---------------------------------------------------- os and library
\* os.path.exists on the data folder, a file in it, the index file
FolderPathExists == folderExists
FilePathExists(path) ==
    folderExists /\ \E n \in 1..Len(folder) : folder[n].name = Basename(path)
IndexPathExists == indexFile.state # "absent"

\* glob.glob(os.path.join(data_folder, "*.pdf"))
Glob ==
    LET pdfs == SelectSeq(folder, LAMBDA f : f.name.ext = "pdf")
    IN  [n \in 1..Len(pdfs) |-> PathJoin(DATA_FOLDER, pdfs[n].name)]

\* what the file at a path holds
ContentAt(path) ==
    folder[CHOOSE n \in 1..Len(folder) : folder[n].name = Basename(path)].content

\* control leaves the started function: back to __main__, or the call is over
Leave(r) ==
    /\ ret' = r
    /\ pc' = IF entry = "ingest_main" THEN "main_after" ELSE "done"

\* sys.exit(status) / exit(status)
Exit(status) ==
    /\ exitStatus' = status
    /\ pc' = "done"

\* what input() gives: a line, EOFError when standard input has ended,
\* or KeyboardInterrupt when the user presses Ctrl-C
Inputs(lines) ==
    { [kind |-> "line", text |-> l] : l \in lines }
    \cup { [kind |-> "eof", text |-> <<>>], [kind |-> "interrupt", text |-> <<>>] }

\* what a library call does: it returns, raises an Exception, or is cut
\* short by Ctrl-C (KeyboardInterrupt, which "except Exception" lets pass)
Outcomes == {"ok", "error", "interrupt"}
RaisedBy(outcome) ==
    IF outcome = "interrupt" THEN "KeyboardInterrupt"
    ELSE IF outcome = "not_found" THEN "FileNotFoundError"
    ELSE "Exception"

\* The outcomes of the calls whose exception class the caller tells apart
\* (chat.py line 24 catches FileNotFoundError by class): open/pickle.load,
\* as_retriever and init_chat_model can also raise FileNotFoundError itself,
\* e.g. when the file is removed between the existence check and open.
LoadOutcomes == Outcomes \cup {"not_found"}

\* The status of a process that an uncaught KeyboardInterrupt ended: the
\* interpreter ends it by SIGINT (signal 2), which a shell reports as 128 + 2.
InterruptStatus == 128 + 2

\* --------------------------------------------- ingest_all.py __main__
\* lines 190-199: create the data folder, ask before overwriting the index
Main_Start ==
    /\ pc = "main_start"
    /\ folderExists' = TRUE
    /\ IF IndexPathExists
       THEN \E in \in Inputs(OverwriteAnswers) :
              /\ response' = in
              /\ IF in.kind = "interrupt"
                 THEN /\ Exit(InterruptStatus)
                      /\ UNCHANGED printed
                 ELSE IF in.kind = "eof"
                 THEN /\ printed' = printed \cup {"error_during_ingestion"}
                      /\ Exit(1)
                 ELSE IF Lower(in.text) # <<"y">>
                 THEN /\ printed' = printed \cup {"ingestion_cancelled"}
                      /\ Exit(0)
                 ELSE /\ pc' = "main_choice"
                      /\ UNCHANGED <<printed, exitStatus>>
       ELSE /\ pc' = "main_choice"
            /\ UNCHANGED <<response, printed, exitStatus>>
    /\ UNCHANGED <<entry, folder, initialIndex, indexDirExists, indexFile, writes,
                   ingestVars, vector_store, ret, chatVars>>

\* lines 201-210: one round of the mode prompt
Main_Choice ==
    /\ pc = "main_choice"
    /\ \E in \in Inputs(ChoiceLines) :
         IF in.kind = "interrupt"
         THEN /\ printed' = printed \cup {"choose_mode"}
              /\ Exit(InterruptStatus)
              /\ UNCHANGED choice
         ELSE IF in.kind = "eof"
         THEN /\ printed' = printed \cup {"choose_mode", "error_during_ingestion"}
              /\ Exit(1)
              /\ UNCHANGED choice
         ELSE IF Strip(in.text) \in { <<"1">>, <<"2">> }
         THEN /\ choice' = Strip(in.text)[1]
              /\ printed' = printed \cup {"choose_mode"}
              /\ pc' = "main_dispatch"
              /\ UNCHANGED exitStatus
         ELSE /\ printed' = printed \cup {"choose_mode", "invalid_choice"}
              /\ UNCHANGED <<choice, pc, exitStatus>>
    /\ UNCHANGED <<entry, fsVars, indexFile, writes, pdf_files, i, all_documents,
                   processed_files, vector_store, ret, chatVars, mainVars>>

\* lines 212-219 and 223-225: call the ingestion function of the chosen mode
Main_Dispatch ==
    /\ pc = "main_dispatch"
    /\ IF choice = "1"
       THEN IF ~FilePathExists(SINGLE_PDF_FILE)
            THEN /\ printed' = printed \cup {"pdf_file_not_found"}
                 /\ Exit(1)
            ELSE /\ pc' = "ip_start"
                 /\ UNCHANGED <<printed, exitStatus>>
       ELSE /\ pc' = "im_start"
            /\ UNCHANGED <<printed, exitStatus>>
    /\ UNCHANGED <<entry, fsVars, indexFile, writes, ingestVars, vector_store,
                   ret, chatVars, mainVars>>

\* Main_After without the "if vector_store is None: exit(1)" test
Main_After_IgnoresNone ==
    /\ pc = "main_after"
    /\ IF ret.status = "raised" /\ ret.exc = "KeyboardInterrupt"
       THEN /\ Exit(InterruptStatus)
            /\ UNCHANGED printed
       ELSE IF ret.status = "raised"
       THEN /\ printed' = printed \cup {"error_during_ingestion"}
            /\ Exit(1)
       ELSE /\ printed' = printed \cup {"vector_store_stats", "ready_for_chat"}
            /\ Exit(0)
    /\ UNCHANGED <<entry, fsVars, indexFile, writes, ingestVars, vector_store,
                   ret, chatVars, mainVars>>

\* lines 219-237: after the ingestion function returned or raised;
\* "except Exception" does not catch a KeyboardInterrupt, which ends the process
Main_After ==
    /\ pc = "main_after"
    /\ IF ret.status = "raised" /\ ret.exc = "KeyboardInterrupt"
       THEN /\ Exit(InterruptStatus)
            /\ UNCHANGED printed
       ELSE IF ret.status = "raised"
       THEN /\ printed' = printed \cup {"error_during_ingestion"}
            /\ Exit(1)
       ELSE IF choice = "2" /\ ret.value = None
       THEN /\ Exit(1)
            /\ UNCHANGED printed
       ELSE /\ printed' = printed \cup {"vector_store_stats", "ready_for_chat"}
            /\ Exit(0)
    /\ UNCHANGED <<entry, fsVars, indexFile, writes, ingestVars, vector_store,
                   ret, chatVars, mainVars>>

\* ----------------------------------------------- ingest_multiple_pdfs
\* IM_Start raising on a folder without PDF files instead of returning None
IM_Start_RaisesOnEmpty ==
    /\ pc = "im_start"
    /\ IF ~FolderPathExists
       THEN /\ Leave(Raised("FileNotFoundError"))
            /\ printed' = printed \cup {"starting_batch"}
            /\ UNCHANGED <<pdf_files, i>>
       ELSE IF Glob = <<>>
       THEN /\ Leave(Raised("EmptyInputError"))
            /\ printed' = printed \cup {"starting_batch", "no_pdf_files_found"}
            /\ UNCHANGED <<pdf_files, i>>
       ELSE /\ pdf_files' = Glob
            /\ i' = 1
            /\ pc' = "im_loop"
            /\ printed' = printed \cup {"starting_batch", "found_pdf_files"}
            /\ UNCHANGED ret
    /\ UNCHANGED <<entry, fsVars, indexFile, writes, choice, all_documents,
                   processed_files, vector_store, exitStatus, chatVars, mainVars>>

\* lines 23-43: check the folder, find the PDF files
IM_Start ==
    /\ pc = "im_start"
    /\ IF ~FolderPathExists
       THEN /\ Leave(Raised("FileNotFoundError"))
            /\ printed' = printed \cup {"starting_batch"}
            /\ UNCHANGED <<pdf_files, i>>
       ELSE IF Glob = <<>>
       THEN /\ Leave(Returned(None))
            /\ printed' = printed \cup {"starting_batch", "no_pdf_files_found"}
            /\ UNCHANGED <<pdf_files, i>>
       ELSE /\ pdf_files' = Glob
            /\ i' = 1
            /\ pc' = "im_loop"
            /\ printed' = printed \cup {"starting_batch", "found_pdf_files"}
            /\ UNCHANGED ret
    /\ UNCHANGED <<entry, fsVars, indexFile, writes, choice, all_documents,
                   processed_files, vector_store, exitStatus, chatVars, mainVars>>

\* IM_ProcessFile with "break" in place of "continue" in the except clause
IM_ProcessFile_BreakOnError ==
    /\ pc = "im_loop"
    /\ i <= Len(pdf_files)
    /\ \E interrupted \in BOOLEAN :
         LET pdf_path == pdf_files[i]
             filename == Basename(pdf_path)
             content  == ContentAt(pdf_path)
             loaded   == LoadedDocs(pdf_path, content)
             docs     == [n \in 1..Len(loaded) |-> WithSourceFile(loaded[n], filename)]
         IN  IF interrupted
             THEN /\ Leave(Raised("KeyboardInterrupt"))
                  /\ printed' = printed \cup {"processing_file"}
                  /\ UNCHANGED <<i, all_documents, processed_files>>
             ELSE IF content.loads
             THEN /\ all_documents' = all_documents \o docs
                  /\ processed_files' = Append(processed_files, filename)
                  /\ printed' = printed \cup {"processing_file", "loaded_pages"}
                  /\ i' = i + 1
                  /\ UNCHANGED <<pc, ret>>
             ELSE /\ printed' = printed \cup {"processing_file", "error_processing"}
                  /\ i' = Len(pdf_files) + 1
                  /\ UNCHANGED <<pc, ret, all_documents, processed_files>>
    /\ UNCHANGED <<entry, fsVars, indexFile, writes, choice, pdf_files,
                   vector_store, exitStatus, chatVars, mainVars>>

\* lines 46-66: one iteration of the loop over the PDF files.  A load that
\* raises an Exception is reported and the loop goes on; a KeyboardInterrupt
\* during the load passes "except Exception" and ends the function.
IM_ProcessFile ==
    /\ pc = "im_loop"
    /\ i <= Len(pdf_files)
    /\ \E interrupted \in BOOLEAN :
         LET pdf_path == pdf_files[i]
             filename == Basename(pdf_path)
             content  == ContentAt(pdf_path)
             loaded   == LoadedDocs(pdf_path, content)
             docs     == [n \in 1..Len(loaded) |-> WithSourceFile(loaded[n], filename)]
         IN  IF interrupted
             THEN /\ Leave(Raised("KeyboardInterrupt"))
                  /\ printed' = printed \cup {"processing_file"}
                  /\ UNCHANGED <<i, all_documents, processed_files>>
             ELSE IF content.loads
             THEN /\ all_documents' = all_documents \o docs
                  /\ processed_files' = Append(processed_files, filename)
                  /\ printed' = printed \cup {"processing_file", "loaded_pages"}
                  /\ i' = i + 1
                  /\ UNCHANGED <<pc, ret>>
             ELSE /\ printed' = printed \cup {"processing_file", "error_processing"}
                  /\ i' = i + 1
                  /\ UNCHANGED <<pc, ret, all_documents, processed_files>>
    /\ UNCHANGED <<entry, fsVars, indexFile, writes, choice, pdf_files,
                   vector_store, exitStatus, chatVars, mainVars>>

\* what split_documents, the embedding model's construction and the
\* insertion raise, if anything: the first call that does not return decides
BuildRaises(splitting, embedding, insertion) ==
    IF splitting # "ok" THEN RaisedBy(splitting)
    ELSE IF embedding # "ok" THEN RaisedBy(embedding)
    ELSE RaisedBy(insertion)

\* all three calls returned
BuildSucceeds(splitting, embedding, insertion) ==
    splitting = "ok" /\ embedding = "ok" /\ insertion = "ok"

\* the messages of the build step: "Created N chunks" once the splitter
\* returned, "Added N document chunks" once the insertion returned
BuildMessages(splitting, embedding, insertion) ==
    (IF splitting = "ok" THEN {"created_chunks"} ELSE {})
    \cup (IF BuildSucceeds(splitting, embedding, insertion) THEN {"added_chunks"} ELSE {})

\* IM_Build with the index file opened for writing before anything else
IM_Build_OpensFileFirst ==
    /\ pc = "im_loop"
    /\ i > Len(pdf_files)
    /\ indexFile' = Truncated
    /\ writes' = writes + 1
    /\ IF all_documents = <<>>
       THEN /\ Leave(Returned(None))
            /\ printed' = printed \cup {"no_documents_processed"}
            /\ UNCHANGED vector_store
       ELSE \E splitting \in Outcomes, embedding \in Outcomes, insertion \in Outcomes :
              /\ printed' = printed \cup {"total_pages"}
                                     \cup BuildMessages(splitting, embedding, insertion)
              /\ IF BuildSucceeds(splitting, embedding, insertion)
                 THEN /\ vector_store' = Store(SplitDocuments(all_documents))
                      /\ pc' = "im_save"
                      /\ UNCHANGED ret
                 ELSE /\ Leave(Raised(BuildRaises(splitting, embedding, insertion)))
                      /\ UNCHANGED vector_store
    /\ UNCHANGED <<entry, fsVars, ingestVars, exitStatus, chatVars, mainVars>>

\* lines 68-97: after the loop: split, embed, insert
IM_Build ==
    /\ pc = "im_loop"
    /\ i > Len(pdf_files)
    /\ IF all_documents = <<>>
       THEN /\ Leave(Returned(None))
            /\ printed' = printed \cup {"no_documents_processed"}
            /\ UNCHANGED vector_store
       ELSE \E splitting \in Outcomes, embedding \in Outcomes, insertion \in Outcomes :
              /\ printed' = printed \cup {"total_pages"}
                                     \cup BuildMessages(splitting, embedding, insertion)
              /\ IF BuildSucceeds(splitting, embedding, insertion)
                 THEN /\ vector_store' = Store(SplitDocuments(all_documents))
                      /\ pc' = "im_save"
                      /\ UNCHANGED ret
                 ELSE /\ Leave(Raised(BuildRaises(splitting, embedding, insertion)))
                      /\ UNCHANGED vector_store
    /\ UNCHANGED <<entry, fsVars, indexFile, writes, ingestVars, exitStatus, chatVars, mainVars>>

\* open(vector_store_path, 'wb') and pickle.dump(vector_store, f).
\* open raises FileNotFoundError when the directory of the path is missing
\* (nothing creates it) and can fail otherwise (OSError); once it succeeds
\* the file is truncated, and a dump that fails or is interrupted leaves it so.
SaveOutcomes == {"ok", "open_error", "open_interrupt", "dump_error", "dump_interrupt"}
SaveVectorStore(outcome) ==
    IF ~indexDirExists
    THEN /\ UNCHANGED <<indexFile, writes>>
         /\ Leave(Raised("FileNotFoundError"))
    ELSE CASE outcome = "open_error" ->
                /\ UNCHANGED <<indexFile, writes>>
                /\ Leave(Raised("Exception"))
           [] outcome = "open_interrupt" ->
                /\ UNCHANGED <<indexFile, writes>>
                /\ Leave(Raised("KeyboardInterrupt"))
           [] outcome = "dump_error" ->
                /\ indexFile' = Truncated
                /\ writes' = writes + 1
                /\ Leave(Raised("Exception"))
           [] outcome = "dump_interrupt" ->
                /\ indexFile' = Truncated
                /\ writes' = writes + 1
                /\ Leave(Raised("KeyboardInterrupt"))
           [] outcome = "ok" ->
                /\ indexFile' = Saved(vector_store.entries)
                /\ writes' = writes + 1
                /\ Leave(Returned(vector_store))

\* the save step came to its end: the file was written and closed
SaveCompleted(outcome) == indexDirExists /\ outcome = "ok"

\* lines 99-107: save the vector store, report, return it
IM_Save ==
    /\ pc = "im_save"
    /\ \E outcome \in SaveOutcomes :
         /\ SaveVectorStore(outcome)
         /\ printed' = printed \cup (IF SaveCompleted(outcome)
                                     THEN {"saving", "batch_completed"}
                                     ELSE {"saving"})
    /\ UNCHANGED <<entry, fsVars, ingestVars, vector_store, exitStatus, chatVars, mainVars>>

\* --------------------------------------------------------- ingest_pdf
\* lines 118-130: check the file, load it, preview its first page
IP_Load ==
    /\ pc = "ip_start"
    /\ IF ~FilePathExists(SINGLE_PDF_FILE)
       THEN /\ Leave(Raised("FileNotFoundError"))
            /\ printed' = printed \cup {"starting_ingestion"}
            /\ UNCHANGED all_documents
       ELSE \E interrupted \in BOOLEAN :
            LET content == ContentAt(SINGLE_PDF_FILE)
                docs    == LoadedDocs(SINGLE_PDF_FILE, content)
            IN  IF interrupted
                THEN /\ Leave(Raised("KeyboardInterrupt"))
                     /\ printed' = printed \cup {"starting_ingestion"}
                     /\ UNCHANGED all_documents
                ELSE IF ~content.loads
                THEN /\ Leave(Raised("Exception"))
                     /\ printed' = printed \cup {"starting_ingestion"}
                     /\ UNCHANGED all_documents
                ELSE IF docs = <<>>
                THEN /\ Leave(Raised("IndexError"))
                     /\ printed' = printed \cup {"starting_ingestion", "loaded_pages"}
                     /\ UNCHANGED all_documents
                ELSE /\ all_documents' = docs
                     /\ pc' = "ip_build"
                     /\ printed' = printed \cup {"starting_ingestion", "loaded_pages",
                                                 "document_preview"}
                     /\ UNCHANGED ret
    /\ UNCHANGED <<entry, fsVars, indexFile, writes, choice, pdf_files, i,
                   processed_files, vector_store, exitStatus, chatVars, mainVars>>

\* lines 132-154: split, embed, insert
IP_Build ==
    /\ pc = "ip_build"
    /\ \E splitting \in Outcomes, embedding \in Outcomes, insertion \in Outcomes :
         /\ printed' = printed \cup BuildMessages(splitting, embedding, insertion)
         /\ IF BuildSucceeds(splitting, embedding, insertion)
            THEN /\ vector_store' = Store(SplitDocuments(all_documents))
                 /\ pc' = "ip_save"
                 /\ UNCHANGED ret
            ELSE /\ Leave(Raised(BuildRaises(splitting, embedding, insertion)))
                 /\ UNCHANGED vector_store
    /\ UNCHANGED <<entry, fsVars, indexFile, writes, ingestVars, exitStatus, chatVars, mainVars>>

\* lines 156-162: save the vector store, report, return it
IP_Save ==
    /\ pc = "ip_save"
    /\ \E outcome \in SaveOutcomes :
         /\ SaveVectorStore(outcome)
         /\ printed' = printed \cup (IF SaveCompleted(outcome)
                                     THEN {"saving", "ingestion_completed"}
                                     ELSE {"saving"})
    /\ UNCHANGED <<entry, fsVars, ingestVars, vector_store, exitStatus, chatVars, mainVars>>

\* -------------------------------------------------- load_vector_store
\* LoadVectorStore without the os.path.exists check (a missing file
\* read as an empty store)
LoadVectorStore_NoExistsCheck(file, loading) ==
    IF loading # "ok" THEN Raised(RaisedBy(loading))
    ELSE IF file.state = "truncated" THEN Raised("Exception")
    ELSE Returned(Store(file.entries))

\* ingest_all.py lines 164-182, on the persisted index file as it is:
\* a missing file raises FileNotFoundError at the check of line 174; on an
\* existing file open and pickle.load can fail (with FileNotFoundError too)
\* or be interrupted, and a truncated file fails to unpickle
LoadVectorStore(file, loading) ==
    IF file.state = "absent" THEN Raised("FileNotFoundError")
    ELSE IF loading # "ok" THEN Raised(RaisedBy(loading))
    ELSE IF file.state = "truncated" THEN Raised("Exception")
    ELSE Returned(Store(file.entries))

\* what load_vector_store prints: nothing when the existence check of
\* line 174 fails, "Loading" (line 177) once the file is known to exist,
\* whatever open and pickle.load then raise, and "loaded successfully"
\* (line 181) once pickle.load returned
LoadMessages(file, r) ==
    IF file.state = "absent" THEN {}
    ELSE IF r.status = "returned" THEN {"loading_vector_store", "vector_store_loaded"}
    ELSE {"loading_vector_store"}

\* a call of load_vector_store(VECTOR_STORE_PATH)
LVS_Call ==
    /\ pc = "lvs"
    /\ \E loading \in LoadOutcomes :
         /\ ret' = LoadVectorStore(indexFile, loading)
         /\ vector_store' = ret'.value
         /\ printed' = printed \cup LoadMessages(indexFile, ret')
    /\ pc' = "done"
    /\ UNCHANGED <<entry, fsVars, indexFile, writes, ingestVars, exitStatus, chatVars, mainVars>>

\* ------------------------------------------------------------ chat.py
\* lines 155-168 (main) and 14-29 (DocumentChatBot.__init__):
\* load the index, build the retriever and the chat model.  A
\* FileNotFoundError from any of the three calls prints "Vector store not
\* found" and exits with 1, any other Exception prints "Error initializing"
\* and exits with 1; a KeyboardInterrupt passes both except clauses and
\* ends the process
Chat_Init ==
    /\ pc = "chat_init"
    /\ \E loading \in LoadOutcomes, retriever \in LoadOutcomes, chat_model \in LoadOutcomes :
         LET r == LoadVectorStore(indexFile, loading)
             \* the exception the try block of lines 16-23 ends with, "" if none:
             \* the first of the three calls that does not return decides
             exc == IF r.status = "raised" THEN r.exc
                    ELSE IF retriever # "ok" THEN RaisedBy(retriever)
                    ELSE IF chat_model # "ok" THEN RaisedBy(chat_model)
                    ELSE ""
         IN  /\ printed' = printed \cup LoadMessages(indexFile, r)
                             \cup (CASE exc = "" -> {"assistant_ready"}
                                     [] exc = "FileNotFoundError" -> {"vector_store_not_found"}
                                     [] exc = "KeyboardInterrupt" -> {}
                                     [] OTHER -> {"error_initializing"})
             /\ IF exc = ""
                THEN /\ vector_store' = r.value
                     /\ pc' = "run_chat"
                     /\ UNCHANGED exitStatus
                ELSE /\ Exit(IF exc = "KeyboardInterrupt" THEN InterruptStatus ELSE 1)
                     /\ UNCHANGED vector_store
    /\ UNCHANGED <<entry, fsVars, indexFile, writes, ingestVars, ret, chatVars, mainVars>>

\* lines 118-120: run_chat displays the welcome text and enters the loop
Run_Chat_Start ==
    /\ pc = "run_chat"
    /\ printed' = printed \cup {"welcome"}
    /\ pc' = "prompt"
    /\ UNCHANGED <<entry, fsVars, indexFile, writes, ingestVars, vector_store,
                   ret, exitStatus, chatVars, mainVars>>

\* what a call made during the session does: it returns, raises an
\* Exception, or is cut short by Ctrl-C (KeyboardInterrupt)
CallOutcomes == Outcomes

\* self.retriever.batch([question]), flattened: the k most similar entries
\* (similarity ranking is not modelled: the first k entries stand for them)
Retrieve(store) == SubSeq(store.entries, 1, Min(K, Len(store.entries)))

\* SearchAndRespond without the "if not context_docs" return
SearchAndRespond_NoEmptyCheck(question, retrieval, completion) ==
    LET context_docs == Retrieve(vector_store)
        base == [retrieve |-> 1, context |-> 0, llm |-> 0, response |-> "none",
                 raised |-> "none"]
    IN  IF retrieval # "ok"
        THEN [base EXCEPT !.raised = RaisedBy(retrieval)]
        ELSE IF completion # "ok"
        THEN [base EXCEPT !.context = Len(context_docs), !.llm = 1,
                          !.raised = RaisedBy(completion)]
        ELSE [base EXCEPT !.context = Len(context_docs), !.llm = 1,
                          !.response = "completion_content"]

\* lines 59-88: search_and_respond(question); retrieval and completion are
\* the calls that can fail.  The result says how often each was called,
\* how many chunks came back, and what was returned or raised.
SearchAndRespond(question, retrieval, completion) ==
    LET context_docs == Retrieve(vector_store)
        base == [retrieve |-> 1, context |-> 0, llm |-> 0, response |-> "none",
                 raised |-> "none"]
    IN  IF retrieval # "ok"
        THEN [base EXCEPT !.raised = RaisedBy(retrieval)]
        ELSE IF context_docs = <<>>
        THEN [base EXCEPT !.response = "no_relevant_information"]
        ELSE IF completion # "ok"
        THEN [base EXCEPT !.context = Len(context_docs), !.llm = 1,
                          !.raised = RaisedBy(completion)]
        ELSE [base EXCEPT !.context = Len(context_docs), !.llm = 1,
                          !.response = "completion_content"]

ExitCommands == { <<"q","u","i","t">>, <<"e","x","i","t">>, <<"b","y","e">> }
HelpCommand == <<"h","e","l","p">>

\* what input() gives at the chat prompt: a line, EOFError, or Ctrl-C
ChatInputs == Inputs(ChatLines)

\* RunChatIteration with the commands compared without lower-casing
RunChatIteration_NoLower(in, retrieval, completion) ==
    LET question == Strip(in.text)
        turn == [NoTurn EXCEPT !.input = in.kind, !.line = in.text]
    IN  IF in.kind = "interrupt"
        THEN [turn EXCEPT !.caught = "KeyboardInterrupt"]
        ELSE IF in.kind = "eof"
        THEN [turn EXCEPT !.caught = "Exception", !.reported = TRUE]
        ELSE IF question = <<>>
        THEN [turn EXCEPT !.branch = "empty"]
        ELSE IF question \in ExitCommands
        THEN [turn EXCEPT !.branch = "exit"]
        ELSE IF question = HelpCommand
        THEN [turn EXCEPT !.branch = "help", !.welcome = 1]
        ELSE LET r == SearchAndRespond(question, retrieval, completion)
             IN  [turn EXCEPT !.branch = "query", !.search = 1,
                              !.retrieve = r.retrieve, !.retrieval = retrieval,
                              !.context = r.context,
                              !.llm = r.llm, !.response = r.response,
                              !.caught = r.raised,
                              !.reported = (r.raised = "Exception")]

\* lines 123-153: the body of one iteration of the chat loop
RunChatIteration(in, retrieval, completion) ==
    LET question == Strip(in.text)
        turn == [NoTurn EXCEPT !.input = in.kind, !.line = in.text]
    IN  IF in.kind = "interrupt"
        THEN [turn EXCEPT !.caught = "KeyboardInterrupt"]
        ELSE IF in.kind = "eof"
        THEN [turn EXCEPT !.caught = "Exception", !.reported = TRUE]
        ELSE IF question = <<>>
        THEN [turn EXCEPT !.branch = "empty"]
        ELSE IF Lower(question) \in ExitCommands
        THEN [turn EXCEPT !.branch = "exit"]
        ELSE IF Lower(question) = HelpCommand
        THEN [turn EXCEPT !.branch = "help", !.welcome = 1]
        ELSE LET r == SearchAndRespond(question, retrieval, completion)
             IN  [turn EXCEPT !.branch = "query", !.search = 1,
                              !.retrieve = r.retrieve, !.retrieval = retrieval,
                              !.context = r.context,
                              !.llm = r.llm, !.response = r.response,
                              !.caught = r.raised,
                              !.reported = (r.raised = "Exception")]

\* LoopEnds with every caught exception breaking the loop
LoopEnds_OnAnyException(turn) == turn.branch = "exit" \/ turn.caught # "none"

\* the break statements of the loop: an exit command, or KeyboardInterrupt
LoopEnds(turn) == turn.branch = "exit" \/ turn.caught = "KeyboardInterrupt"

\* what one iteration prints
TurnMessages(turn) ==
    (IF turn.branch = "exit" THEN {"goodbye"} ELSE {})
    \cup (IF turn.caught = "KeyboardInterrupt" THEN {"goodbye"} ELSE {})
    \cup (IF turn.welcome > 0 THEN {"welcome"} ELSE {})
    \cup (IF turn.search > 0 THEN {"searching"} ELSE {})
    \cup (IF turn.llm > 0 THEN {"analyzing"} ELSE {})
    \cup (IF turn.response # "none" THEN {"answer"} ELSE {})
    \cup (IF turn.reported THEN {"error_occurred"} ELSE {})

\* Run_Chat_Iteration with every query also inserted into the index
Run_Chat_Iteration_InsertsQuery ==
    /\ pc = "prompt"
    /\ turns < MaxTurns
    /\ \E in \in ChatInputs, retrieval \in CallOutcomes, completion \in CallOutcomes :
         /\ last' = RunChatIteration(in, retrieval, completion)
         /\ printed' = printed \cup TurnMessages(last')
         /\ pc' = IF LoopEnds(last') THEN "done" ELSE "prompt"
         /\ vector_store' =
              IF last'.branch = "query"
              THEN Store(Append(vector_store.entries,
                                [page_content |-> in.text, metadata |-> [page |-> 0]]))
              ELSE vector_store
    /\ turns' = turns + 1
    /\ UNCHANGED <<entry, fsVars, indexFile, writes, ingestVars,
                   ret, exitStatus, mainVars>>

\* lines 122-153: one iteration of the chat loop
Run_Chat_Iteration ==
    /\ pc = "prompt"
    /\ turns < MaxTurns
    /\ \E in \in ChatInputs, retrieval \in CallOutcomes, completion \in CallOutcomes :
         /\ last' = RunChatIteration(in, retrieval, completion)
         /\ printed' = printed \cup TurnMessages(last')
         /\ pc' = IF LoopEnds(last') THEN "done" ELSE "prompt"
    /\ turns' = turns + 1
    /\ UNCHANGED <<entry, fsVars, indexFile, writes, ingestVars, vector_store,
                   ret, exitStatus, mainVars>>

\* ------------------------------------------------------ specification
Next ==
    \/ Main_Start
    \/ Main_Choice
    \/ Main_Dispatch
    \/ Main_After
    \/ IM_Start
    \/ IM_ProcessFile
    \/ IM_Build
    \/ IM_Save
    \/ IP_Load
    \/ IP_Build
    \/ IP_Save
    \/ LVS_Call
    \/ Chat_Init
    \/ Run_Chat_Start
    \/ Run_Chat_Iteration

Spec == Init /\ [][Next]_vars

\* ============================================================ claims
IngestEntries == {"ingest_main", "ingest_multiple_pdfs", "ingest_pdf"}

\* the ingestion mode of the run: '1' single file, '2' directory, "" none yet
Mode ==
    CASE entry = "ingest_main"          -> choice
      [] entry = "ingest_multiple_pdfs" -> "2"
      [] entry = "ingest_pdf"           -> "1"
      [] OTHER                          -> ""

\* the started ingestion function is over
FunctionOver == ret.status # "pending"

\* ------------------------------------------------------------------ C1
Commands == ExitCommands \cup {HelpCommand}

\* what each line at the prompt is, read off the interface description
ExpectedBranch(line) ==
    CASE line \in { <<>>, <<" ", "\t">>, <<"\f">> } -> "empty"
      [] line \in { <<"q","u","i","t">>, <<"Q","U","I","T">>,
                    <<" ","E","x","i","t"," ">>, <<"b","y","e","\t">>,
                    <<"q","u","i","t","\r">> } -> "exit"
      [] line \in { <<"h","e","l","p">>, <<" ","H","e","L","P">>,
                    <<"U+00A0","h","e","l","p","U+2028">> } -> "help"
      [] OTHER -> "query"

\* C1: in the session loop every line of input is routed after stripping:
\* an empty line is ignored and the prompt comes again; quit, exit or bye in
\* any case ends the session; help in any case redisplays the welcome text
\* with no retrieval call and no completion call; every other non-empty
\* line causes exactly one call of search_and_respond.  Retrieval is invoked
\* if and only if the stripped line is non-empty and none of the four commands.
C1_InputRouting ==
    (entry = "chat_main" /\ last.input = "line") =>
        LET q == Strip(last.line)
            isQuery == q # <<>> /\ Lower(q) \notin Commands
        IN  /\ last.branch = ExpectedBranch(last.line)
            /\ q = <<>> =>
                 /\ pc = "prompt"
                 /\ last.search = 0 /\ last.retrieve = 0 /\ last.llm = 0
                 /\ last.welcome = 0
            /\ (q # <<>> /\ Lower(q) \in ExitCommands) =>
                 /\ pc = "done"
                 /\ last.search = 0 /\ last.retrieve = 0 /\ last.llm = 0
            /\ (q # <<>> /\ Lower(q) = HelpCommand) =>
                 /\ pc = "prompt"
                 /\ last.welcome = 1
                 /\ last.search = 0 /\ last.retrieve = 0 /\ last.llm = 0
            /\ isQuery => last.search = 1
            /\ (last.retrieve >= 1) <=> isQuery
            /\ last.retrieve <= 1

\* help typed in mixed case with surrounding blanks, in mid-session
C1_Witness ==
    /\ entry = "chat_main"
    /\ turns >= 2
    /\ last.line = <<" ","H","e","L","P">>
    /\ last.welcome = 1

\* ------------------------------------------------------------------ C2
\* C2: once the session loop runs, an exception raised while reading input,
\* retrieving or generating is caught, reported, and the loop prompts again;
\* the loop ends only on an exit command or a keyboard interrupt.
C2_LoopSurvivesErrors ==
    (entry = "chat_main" /\ turns > 0) =>
        /\ last.caught = "Exception" => (pc = "prompt" /\ last.reported)
        /\ pc = "done" => (last.branch = "exit" \/ last.caught = "KeyboardInterrupt")
        /\ pc \in {"prompt", "done"}

\* a completion request failed and the loop is back at the prompt
C2_Witness ==
    /\ entry = "chat_main"
    /\ pc = "prompt"
    /\ last.llm = 1
    /\ last.caught = "Exception"
    /\ last.reported

\* ------------------------------------------------------------------ C3
\* the pages of the readable files among paths, in order, as <<path, page>>
RECURSIVE PagesOfReadable(_)
PagesOfReadable(paths) ==
    IF paths = <<>> THEN <<>>
    ELSE LET c == ContentAt(Head(paths))
         IN  (IF c.loads THEN [p \in 1..Len(c.pages) |-> <<Head(paths), p - 1>>] ELSE <<>>)
             \o PagesOfReadable(Tail(paths))

\* C3: in directory ingestion a file that fails to load is skipped and the
\* batch goes on: every file is processed, the ingested documents are the
\* pages of the files that loaded, in enumeration order, and hold no page of
\* a file that failed.  (A load failure is an Exception of the loader; a
\* run the user ends with Ctrl-C stops where it is, with the pages of the
\* files processed so far.)
C3_FailedFileSkipped ==
    (Mode = "2" /\ i >= 1) =>
        /\ [n \in 1..Len(all_documents) |->
               <<all_documents[n].metadata.source, all_documents[n].metadata.page>>]
             = PagesOfReadable(SubSeq(pdf_files, 1, i - 1))
        /\ (pc # "im_loop" /\ ret.exc # "KeyboardInterrupt") => i = Len(pdf_files) + 1
        /\ pdf_files = Glob

\* the first file failed to load, the second was loaded and ingested
C3_Witness ==
    /\ Mode = "2"
    /\ pc = "im_save"
    /\ Len(pdf_files) = 2
    /\ ~ContentAt(pdf_files[1]).loads
    /\ ContentAt(pdf_files[2]).loads
    /\ Len(all_documents) >= 1

\* ------------------------------------------------------------------ C4
\* directory ingestion of an existing folder without a *.pdf file is over
EmptyFolderIngested == Mode = "2" /\ FunctionOver /\ folderExists /\ Glob = <<>>

\* C4 as stated: on an existing folder without a *.pdf file, directory
\* ingestion fails with an EmptyInputError instead of returning normally.
C4_AsStated ==
    EmptyFolderIngested => (ret.status = "raised" /\ ret.exc = "EmptyInputError")

\* C4 amended: on an existing folder without a *.pdf file,
\* ingest_multiple_pdfs raises nothing: it prints a warning and returns
\* None, with no document loaded, no index built and no file written; the
\* script turns that None into exit status 1.
C4_ReturnsNone ==
    EmptyFolderIngested =>
        /\ ret = Returned(None)
        /\ "no_pdf_files_found" \in printed
        /\ all_documents = <<>> /\ vector_store = None
        /\ indexFile = initialIndex /\ writes = 0
        /\ (entry = "ingest_main" /\ pc = "done") => exitStatus = 1

\* a folder that holds only notes.txt was ingested
C4_Witness ==
    /\ entry = "ingest_multiple_pdfs"
    /\ pc = "done"
    /\ Len(folder) = 1
    /\ Glob = <<>>

\* ------------------------------------------------------------------ C5
NothingDone ==
    /\ printed \subseteq {"starting_batch", "starting_ingestion"}
    /\ all_documents = <<>>
    /\ vector_store = None
    /\ ret.value = None
    /\ indexFile = initialIndex
    /\ writes = 0

\* C5: an operation given a path that does not exist fails with
\* FileNotFoundError: directory ingestion of a missing folder, single-file
\* ingestion of a missing PDF, load of a missing index file.  No document
\* is loaded, no index returned, no file written (only the start message
\* is printed before the failure); the chat program with a
\* missing index exits with status 1 before the session loop is entered.
C5_MissingPathNotFound ==
    /\ (entry = "ingest_multiple_pdfs" /\ ~folderExists /\ pc = "done") =>
           (ret = Raised("FileNotFoundError") /\ NothingDone)
    /\ (entry = "ingest_pdf" /\ ~FilePathExists(SINGLE_PDF_FILE) /\ pc = "done") =>
           (ret = Raised("FileNotFoundError") /\ NothingDone)
    /\ (entry = "load_vector_store" /\ initialIndex = NoFile /\ pc = "done") =>
           (ret = Raised("FileNotFoundError") /\ NothingDone)
    /\ (entry = "chat_main" /\ initialIndex = NoFile /\ pc # "chat_init") =>
           /\ pc = "done" /\ exitStatus = 1
           /\ turns = 0 /\ printed = {"vector_store_not_found"}
           /\ vector_store = None /\ all_documents = <<>>
           /\ indexFile = initialIndex /\ writes = 0

\* the chat program was started without a persisted index and has exited
C5_Witness ==
    /\ entry = "chat_main"
    /\ initialIndex = NoFile
    /\ pc = "done"
    /\ "vector_store_not_found" \in printed

\* ------------------------------------------------------------------ C6
\* C6: when retrieval returns zero chunks, search_and_respond returns the
\* "no relevant information" message as a normal result, raises nothing and
\* does not call the completion service; the completion service is called,
\* exactly once, only when at least one chunk was retrieved.
C6_EmptyRetrieval ==
    (entry = "chat_main" /\ last.branch = "query") =>
        LET returned == last.retrieval = "ok"
            chunks == Len(Retrieve(vector_store))
        IN  /\ (returned /\ chunks = 0) =>
                 /\ last.response = "no_relevant_information"
                 /\ last.caught = "none"
                 /\ last.llm = 0
            /\ (last.llm = 1) <=> (returned /\ chunks >= 1)
            /\ last.llm <= 1

\* a query against an index without entries got the message
C6_Witness ==
    /\ entry = "chat_main"
    /\ last.branch = "query"
    /\ vector_store = Store(<<>>)
    /\ last.response = "no_relevant_information"

\* ------------------------------------------------------------------ C7
\* no page can be loaded in the run's mode: no PDF file, none that loads,
\* or none with a page
ZeroDocuments ==
    IF Mode = "2"
    THEN \A n \in 1..Len(Glob) :
            ~ContentAt(Glob[n]).loads \/ ContentAt(Glob[n]).pages = <<>>
    ELSE \/ ~FilePathExists(SINGLE_PDF_FILE)
         \/ ~ContentAt(SINGLE_PDF_FILE).loads
         \/ ContentAt(SINGLE_PDF_FILE).pages = <<>>

SuccessMessages == {"batch_completed", "ingestion_completed", "ready_for_chat"}

\* C7: an ingestion run of the script that ends with zero documents
\* processed (no PDF found, every file failed to load, or the loaded files
\* had no pages), in either mode, exits with a non-zero status and never
\* reports success.
C7_TotalFailureExitsNonZero ==
    (entry = "ingest_main" /\ pc = "done" /\ choice # "" /\ ZeroDocuments) =>
        /\ exitStatus # 0
        /\ printed \cap SuccessMessages = {}

\* single-file mode on a PDF that loads with no page
C7_Witness ==
    /\ entry = "ingest_main"
    /\ pc = "done"
    /\ choice = "1"
    /\ FilePathExists(SINGLE_PDF_FILE)
    /\ ContentAt(SINGLE_PDF_FILE) = [loads |-> TRUE, pages |-> <<>>]

\* ------------------------------------------------------------------ C8
HasSourceFile(d) ==
    /\ "source_file" \in DOMAIN d.metadata
    /\ d.metadata.source_file = Basename(d.metadata.source)

\* C8: in both ingestion modes every page the loader produced carries in
\* source_file the name of the file it came from, so that every chunk
\* inserted into the vector store has a source_file equal to that name.
C8_SourceFileEverywhere ==
    (entry \in IngestEntries) =>
        \A n \in 1..Len(vector_store.entries) : HasSourceFile(vector_store.entries[n])

\* ------------------------------------------------------------------ C9
\* C9: during a query session the index is only read: whatever the session
\* inputs, the loaded entries and the persisted index file stay as they
\* were when the session started.
C9_IndexReadOnlyInSession ==
    (entry = "chat_main") =>
        /\ indexFile = initialIndex
        /\ writes = 0
        /\ pc \in {"run_chat", "prompt"} \/ turns > 0 =>
               vector_store = Store(initialIndex.entries)

\* a query answered from a non-empty index, after an earlier turn
C9_Witness ==
    /\ entry = "chat_main"
    /\ turns >= 2
    /\ last.branch = "query"
    /\ last.context >= 1
    /\ last.response = "completion_content"

\* ----------------------------------------------------------------- C10
\* the overwrite prompt was answered with something other than y or Y
Cancelled ==
    /\ entry = "ingest_main"
    /\ response.kind = "line"
    /\ response.text \notin { <<"y">>, <<"Y">> }

\* C10: the persisted index file is written at most once per ingestion run,
\* and only as the last step, after loading, chunking and insertion
\* succeeded; a run cancelled at the overwrite prompt, one that raises
\* FileNotFoundError, or one that aborts with zero documents leaves an
\* existing index file unchanged.
C10_IndexWrittenLast ==
    (entry \in IngestEntries) =>
        /\ writes <= 1
        /\ indexFile # initialIndex => writes = 1
        /\ writes = 1 =>
             /\ vector_store = Store(SplitDocuments(all_documents))
             /\ all_documents # <<>>
             /\ FunctionOver
        /\ (pc = "done" /\ (\/ Cancelled
                            \/ ret.exc = "FileNotFoundError"
                            \/ (Mode # "" /\ ZeroDocuments))) =>
             (indexFile = initialIndex /\ writes = 0)

\* an existing index survived a run cancelled by answering "yes"
C10_Witness ==
    /\ entry = "ingest_main"
    /\ pc = "done"
    /\ response.text = <<"y","e","s">>
    /\ initialIndex.state = "saved"
    /\ initialIndex.entries # <<>>
    /\ indexFile = initialIndex

====
